---------------------------- MODULE Spec2Model ----------------------------
(***************************************************************************)
(* Bhandari's k link-disjoint shortest paths as implemented by the         *)
(* function bhandari of src/src/main.rs.  Node names are natural numbers   *)
(* (their order is the order of the sorted name list), node indices are    *)
(* the 0-based positions in the sorted, deduplicated name list.            *)
(***************************************************************************)
EXTENDS Integers, Sequences, FiniteSets, TLC

(***************************************************************************)
(* Bounds of the model.                                                    *)
(***************************************************************************)
MaxK == 3
MaxEdges == 6
MaxPops == 40
MaxIter == 4
MaxPathLen == 5

\* usize values are written by their two's-complement representative: the
\* wrapped 0 - 1 = 2^64 - 1 of a release build is -1, the largest usize.
UsizeMaxRep == -1

(***************************************************************************)
(* i32 arithmetic on the edge weights (Edge::weight, the cost type of the  *)
(* searches).  A sum outside the range panics when the build has overflow  *)
(* checks (the dev profile) and wraps modulo 2^32 when it has not (the     *)
(* release profile).  The sums are taken without leaving the range.        *)
(***************************************************************************)
I32Max == 2147483647
I32Min == -I32Max - 1

AddOverflows(a, b) ==
    \/ (b > 0 /\ a > I32Max - b)
    \/ (b < 0 /\ a < I32Min - b)

\* i32::wrapping_add.
WrappingAdd(a, b) ==
    IF b > 0 /\ a > I32Max - b THEN ((a - I32Max) + (b - I32Max)) - 2
    ELSE IF b < 0 /\ a < I32Min - b THEN ((a + I32Max) + (b + I32Max)) + 2
    ELSE a + b

(***************************************************************************)
(* Sequence helpers.                                                       *)
(***************************************************************************)
Range(s) == {s[i] : i \in 1..Len(s)}

\* Iterator::position over the positions in S that satisfy the predicate:
\* the first one, 0 for None.
FirstOf(S) == IF S = {} THEN 0 ELSE CHOOSE i \in S : \A j \in S : i <= j

\* The first position of value x in s, 0 when absent.
IndexIn(s, x) == FirstOf({i \in 1..Len(s) : s[i] = x})

\* Vec::remove(pos), pos 1-based here.
RemoveAt(s, pos) == SubSeq(s, 1, pos - 1) \o SubSeq(s, pos + 1, Len(s))

\* slice::windows(2) mapped to pairs: the links of a path.
Links(path) == [i \in 1..(IF Len(path) = 0 THEN 0 ELSE Len(path) - 1)
                    |-> <<path[i], path[i + 1]>>]

RECURSIVE Concat(_)
Concat(ss) == IF ss = <<>> THEN <<>> ELSE Head(ss) \o Concat(Tail(ss))

RECURSIVE Perms(_)
Perms(S) == IF S = {} THEN {<<>>}
            ELSE UNION {{<<x>> \o p : p \in Perms(S \ {x})} : x \in S}

(***************************************************************************)
(* std::collections::BinaryHeap over pathfinding's SmallestHolder, whose   *)
(* ordering is the reverse of the cost's and ignores the index.  A heap    *)
(* entry is <<cost, index>>; positions are 0-based as in the library.      *)
(***************************************************************************)
HolderLe(a, b) == a[1] >= b[1]

RECURSIVE SiftUp(_, _, _)
SiftUp(h, elt, pos) ==
    LET parent == (pos - 1) \div 2 IN
    IF pos > 0 /\ ~HolderLe(elt, h[parent + 1])
    THEN SiftUp([h EXCEPT ![pos + 1] = h[parent + 1]], elt, parent)
    ELSE [h EXCEPT ![pos + 1] = elt]

HeapPush(h, x) == SiftUp(Append(h, x), x, Len(h))

RECURSIVE SiftDownToBottom(_, _, _, _)
SiftDownToBottom(h, elt, pos, child) ==
    LET len == Len(h) IN
    IF child <= len - 2
    THEN LET c == IF HolderLe(h[child + 1], h[child + 2]) THEN child + 1 ELSE child
         IN  SiftDownToBottom([h EXCEPT ![pos + 1] = h[c + 1]], elt, c, 2 * c + 1)
    ELSE IF child = len - 1
         THEN SiftUp([h EXCEPT ![pos + 1] = h[child + 1]], elt, child)
         ELSE SiftUp(h, elt, pos)

\* BinaryHeap::pop on a non-empty heap: <<popped entry, remaining heap>>.
HeapPop(h) ==
    LET item == h[Len(h)]
        rest == SubSeq(h, 1, Len(h) - 1)
    IN  IF rest = <<>> THEN <<item, <<>>>>
        ELSE <<rest[1], SiftDownToBottom([rest EXCEPT ![1] = item], item, 0, 1)>>

(***************************************************************************)
(* pathfinding::prelude::dijkstra(&start, successors, |n| *n == end).      *)
(* keys/par/cst are the IndexMap `parents` (insertion order; position      *)
(* 1-based here, parent 0 for the start's usize::MAX).  succ[n + 1] is the *)
(* sequence of <<to, weight>> the successors closure returns for node n.   *)
(* checks: the build has overflow checks; ovf: cost + move_cost panicked.  *)
(***************************************************************************)
RECURSIVE Relax(_, _, _, _, _, _)
Relax(st, cost, index, succs, i, checks) ==
    IF i > Len(succs) THEN st
    ELSE IF checks /\ AddOverflows(cost, succs[i][2]) THEN [st EXCEPT !.ovf = TRUE]
    ELSE LET successor == succs[i][1]
             new_cost  == WrappingAdd(cost, succs[i][2])
             n         == IndexIn(st.keys, successor)
         IN  IF n = 0
             THEN Relax([st EXCEPT !.keys = Append(st.keys, successor),
                                   !.par  = Append(st.par, index),
                                   !.cst  = Append(st.cst, new_cost),
                                   !.heap = HeapPush(st.heap, <<new_cost, Len(st.keys) + 1>>)],
                        cost, index, succs, i + 1, checks)
             ELSE IF st.cst[n] > new_cost
                  THEN Relax([st EXCEPT !.par[n] = index, !.cst[n] = new_cost,
                                        !.heap = HeapPush(st.heap, <<new_cost, n>>)],
                             cost, index, succs, i + 1, checks)
                  ELSE Relax(st, cost, index, succs, i + 1, checks)

\* reverse_path: follow the parents from the target back to the start.  A
\* chain longer than the map has a cycle in it: the iterator never ends and
\* the vector it is collected into grows until memory runs out.
RECURSIVE ReversePath(_, _, _)
ReversePath(st, i, acc) ==
    IF i = 0 THEN [kind |-> "found", path |-> acc]
    ELSE IF Len(acc) > Len(st.keys) THEN [kind |-> "cycle", path |-> <<>>]
    ELSE ReversePath(st, st.par[i], <<st.keys[i]>> \o acc)

\* The result: "found" with the path, "none", "overflow" (the addition
\* panicked), "cycle" (reverse_path never ends) or "diverge" (not finished
\* after MaxPops pops of the heap).
RECURSIVE RunDijkstra(_, _, _, _, _)
RunDijkstra(st, succ, goal, fuel, checks) ==
    IF st.ovf THEN [kind |-> "overflow", path |-> <<>>]
    ELSE IF st.heap = <<>> THEN [kind |-> "none", path |-> <<>>]
    ELSE IF fuel = 0 THEN [kind |-> "diverge", path |-> <<>>]
    ELSE LET popped == HeapPop(st.heap)
             cost   == popped[1][1]
             index  == popped[1][2]
             node   == st.keys[index]
             st1    == [st EXCEPT !.heap = popped[2]]
         IN  IF node = goal THEN ReversePath(st1, index, <<>>)
             ELSE IF cost > st.cst[index]
                  THEN RunDijkstra(st1, succ, goal, fuel - 1, checks)
                  ELSE RunDijkstra(Relax(st1, cost, index, succ[node + 1], 1, checks),
                                   succ, goal, fuel - 1, checks)

Dijkstra(s, succ, goal, checks) ==
    RunDijkstra([keys |-> <<s>>, par |-> <<0>>, cst |-> <<0>>,
                 heap |-> <<<<0, 1>>>>, ovf |-> FALSE], succ, goal, MaxPops, checks)

(***************************************************************************)
(* Lines 48-75: names to indices.                                          *)
(***************************************************************************)
RECURSIVE SortSet(_)
SortSet(S) == IF S = {} THEN <<>>
              ELSE LET m == CHOOSE x \in S : \A y \in S : x <= y
                   IN  <<m>> \o SortSet(S \ {m})

\* nodes.sort(); nodes.dedup(): the names of the edge list, ascending, once each.
NodeNames(es) == SortSet({es[i].from : i \in 1..Len(es)} \cup {es[i].to : i \in 1..Len(es)})

\* nodes_names_to_indices.get(name): the 0-based index, -1 for None.
NameToIndex(ns, name) == IndexIn(ns, name) - 1

IndexedGraph(es, ns) ==
    [i \in 1..Len(es) |-> [from   |-> NameToIndex(ns, es[i].from),
                           to     |-> NameToIndex(ns, es[i].to),
                           weight |-> es[i].weight]]

(***************************************************************************)
(* Lines 80-86: the successors closure of the first search scans the edge  *)
(* list in its order (parallel edges included).                            *)
(***************************************************************************)
RECURSIVE ListSuccessors(_, _, _)
ListSuccessors(g, node, i) ==
    IF i > Len(g) THEN <<>>
    ELSE (IF g[i].from = node THEN <<<<g[i].to, g[i].weight>>>> ELSE <<>>)
         \o ListSuccessors(g, node, i + 1)

FirstSucc(g, n) == [v \in 1..n |-> ListSuccessors(g, v - 1, 1)]

(***************************************************************************)
(* Lines 104-117: the working graph.  HashMap::from_iter keeps, for a key  *)
(* given twice, the last value.  A map is a function on its key set.       *)
(***************************************************************************)
MapFromEdges(g) ==
    [key \in {<<g[i].from, g[i].to>> : i \in 1..Len(g)} |->
        LET last == CHOOSE i \in 1..Len(g) :
                        /\ <<g[i].from, g[i].to>> = key
                        /\ \A j \in (i + 1)..Len(g) : <<g[j].from, g[j].to>> # key
        IN  g[last].weight]

MapRemove(m, key) == [x \in (DOMAIN m) \ {key} |-> m[x]]
MapInsert(m, key, val) == [x \in (DOMAIN m) \cup {key} |-> IF x = key THEN val ELSE m[x]]

\* One link: remove_entry(&(from, to)).expect("link should be present"),
\* then insert((to, from), -weight).
ReverseLink(m, link) ==
    MapInsert(MapRemove(m, link), <<link[2], link[1]>>, 0 - m[link])

\* All links of all accumulated paths, in order; ok is FALSE when a lookup
\* failed (the expect panics).
RECURSIVE ReverseLinks(_, _)
ReverseLinks(m, links) ==
    IF links = <<>> THEN [ok |-> TRUE, map |-> m]
    ELSE IF Head(links) \notin DOMAIN m THEN [ok |-> FALSE, map |-> m]
    ELSE ReverseLinks(ReverseLink(m, Head(links)), Tail(links))

AllLinks(paths) == Concat([i \in 1..Len(paths) |-> Links(paths[i])])

(***************************************************************************)
(* Lines 120-126: the successors closure of a later search filters         *)
(* graph.iter(), whose order is the hash map's.  An enumeration order is   *)
(* given per node: order[v + 1] lists the targets of v's entries in the    *)
(* order the map yields them.                                              *)
(***************************************************************************)
OutTargets(m, v) == {key[2] : key \in {x \in DOMAIN m : x[1] = v}}

RECURSIVE OrdersFrom(_, _, _)
OrdersFrom(m, v, n) ==
    IF v >= n THEN {<<>>}
    ELSE {<<p>> \o rest : p \in Perms(OutTargets(m, v)), rest \in OrdersFrom(m, v + 1, n)}

MapOrders(m, n) == OrdersFrom(m, 0, n)

\* The enumeration in ascending key order (one of the possible ones).
SortedOrder(m, n) == [v \in 1..n |-> SortSet(OutTargets(m, v - 1))]

MapSucc(m, order) ==
    [v \in 1..Len(order) |->
        [i \in 1..Len(order[v]) |-> <<order[v][i], m[<<v - 1, order[v][i]>>]>>]]

(***************************************************************************)
(* Lines 134-155: uncrossing.                                              *)
(***************************************************************************)
\* UncrossLink without the cancellation of lines 146-150.
UncrossLinkNoCancel(unique_links, link) == Append(unique_links, link)

\* One link of a later path against unique_links: remove the first entry
\* that is the link or its reverse, else push the link.
UncrossLink(unique_links, link) ==
    LET pos == FirstOf({i \in 1..Len(unique_links) :
                          \/ (link[1] = unique_links[i][1] /\ link[2] = unique_links[i][2])
                          \/ (link[1] = unique_links[i][2] /\ link[2] = unique_links[i][1])})
    IN  IF pos # 0 THEN RemoveAt(unique_links, pos) ELSE Append(unique_links, link)

RECURSIVE UncrossLinks(_, _)
UncrossLinks(unique_links, links) ==
    IF links = <<>> THEN unique_links
    ELSE UncrossLinks(UncrossLink(unique_links, Head(links)), Tail(links))

\* paths is not empty here (line 131 has just pushed).
UniqueLinks(paths) == UncrossLinks(Links(paths[1]), AllLinks(Tail(paths)))

(***************************************************************************)
(* Lines 157-181: reconstruction.  The walks share unique_links; a start-  *)
(* ing link is read from the copy starting_links and is not removed.       *)
(***************************************************************************)
RECURSIVE StartingLinks(_, _)
StartingLinks(unique_links, s) ==
    IF unique_links = <<>> THEN <<>>
    ELSE (IF Head(unique_links)[1] = s THEN <<Head(unique_links)>> ELSE <<>>)
         \o StartingLinks(Tail(unique_links), s)

\* Walk taking the last link that leaves the current node, not the first.
RECURSIVE WalkLastLink(_, _, _, _)
WalkLastLink(unique_links, current_node, path, t) ==
    IF current_node = t THEN [ok |-> TRUE, path |-> path, links |-> unique_links]
    ELSE LET from == {i \in 1..Len(unique_links) : unique_links[i][1] = current_node}
             pos == IF from = {} THEN 0 ELSE CHOOSE i \in from : \A j \in from : j <= i
         IN  IF pos = 0 THEN [ok |-> FALSE, path |-> path, links |-> unique_links]
             ELSE WalkLastLink(RemoveAt(unique_links, pos), unique_links[pos][2],
                               Append(path, unique_links[pos][2]), t)

\* One walk: [ok, path, links]; ok is FALSE when position(..) is None (the
\* expect("should exist") panics).
RECURSIVE Walk(_, _, _, _)
Walk(unique_links, current_node, path, t) ==
    IF current_node = t THEN [ok |-> TRUE, path |-> path, links |-> unique_links]
    ELSE LET pos == FirstOf({i \in 1..Len(unique_links) : unique_links[i][1] = current_node})
         IN  IF pos = 0 THEN [ok |-> FALSE, path |-> path, links |-> unique_links]
             ELSE Walk(RemoveAt(unique_links, pos), unique_links[pos][2],
                       Append(path, unique_links[pos][2]), t)

\* Walks in which every walk searches the whole of unique_links, the links
\* taken by the walks before it included.
RECURSIVE WalksFromFullList(_, _, _, _)
WalksFromFullList(unique_links, starting_links, t, acc) ==
    IF starting_links = <<>> THEN [ok |-> TRUE, paths |-> acc]
    ELSE LET l == Head(starting_links)
             w == Walk(unique_links, l[2], <<l[1], l[2]>>, t)
         IN  IF ~w.ok THEN [ok |-> FALSE, paths |-> acc]
             ELSE WalksFromFullList(unique_links, Tail(starting_links), t,
                                    Append(acc, w.path))

RECURSIVE Walks(_, _, _, _)
Walks(unique_links, starting_links, t, acc) ==
    IF starting_links = <<>> THEN [ok |-> TRUE, paths |-> acc]
    ELSE LET l == Head(starting_links)
             w == Walk(unique_links, l[2], <<l[1], l[2]>>, t)
         IN  IF ~w.ok THEN [ok |-> FALSE, paths |-> acc]
             ELSE Walks(w.links, Tail(starting_links), t, Append(acc, w.path))

Reconstruct(unique_links, s, t) ==
    Walks(unique_links, StartingLinks(unique_links, s), t, <<>>)

(***************************************************************************)
(* The state of one call of bhandari(_graph, start, end, k).               *)
(***************************************************************************)
VARIABLES
    edges,      \* _graph: the edge list, records [from, to, weight] over names
    startName,  \* start: &str
    endName,    \* end: &str
    k,          \* k: usize
    overflow_checks,  \* the build profile: TRUE for dev, FALSE for release
    pc,         \* "begin", "loop", "done" (returned), "panic", "hang" (the call
                \* never comes back), or "uncross"
    nodes,      \* nodes_indices_to_names
    graph,      \* the edge list over indices
    start,      \* index of the source
    end,        \* index of the target
    paths,      \* Vec<Vec<u32>>
    count,      \* k - 1, the bound of the range 0..(k - 1)
    iter,       \* iterations of the loop completed
    result      \* what the call returned, or the panic that ended it

vars == <<edges, startName, endName, k, overflow_checks, pc, nodes, graph, start, end, paths,
          count, iter, result>>

NoResult == [kind |-> "none", msg |-> "", paths |-> <<>>]

\* anyhow's context strings at lines 91 and 129.
FirstSearchContext == "this graph doesn't contain such path"
LaterSearchContext == "this graph doesn't contain such path"

\* The panics of the arithmetic when the build has overflow checks.
AddOverflow == "attempt to add with overflow"
SubOverflow == "attempt to subtract with overflow"

\* An anyhow::Error built by .context(msg) on None holds the message only.
Err(msg) == [kind |-> "Err", msg |-> msg, paths |-> <<>>]
Panic(msg) == [kind |-> "Panic", msg |-> msg, paths |-> <<>>]
Ok(ps) == [kind |-> "Ok", msg |-> "", paths |-> ps]
Hang(msg) == [kind |-> "Hang", msg |-> msg, paths |-> <<>>]

\* How a search that returned no path ends the call: None becomes the error
\* of the context, the rest never returns.
SearchFailure(sp, context) ==
    CASE sp.kind = "none"     -> [pc |-> "done", result |-> Err(context)]
      [] sp.kind = "overflow" -> [pc |-> "panic", result |-> Panic(AddOverflow)]
      [] sp.kind = "cycle"    -> [pc |-> "hang", result |-> Hang("reverse_path does not end")]
      [] sp.kind = "diverge"  -> [pc |-> "hang", result |-> Hang("search cut off")]

\* Unsigned i < n on two's-complement representatives (i is small).
ULess(i, n) == IF n < 0 THEN TRUE ELSE i < n

(***************************************************************************)
(* Lines 103-181 as a function of the accumulated paths and of the order   *)
(* in which the working graph enumerates its entries: the pc after the     *)
(* iteration ("loop" when it completed), the new paths, the result.        *)
(***************************************************************************)
WorkingGraph(g, ps) == ReverseLinks(MapFromEdges(g), AllLinks(ps))

IterationOutcome(g, s, t, ps, order, checks) ==
    LET w  == WorkingGraph(g, ps)
        sp == Dijkstra(s, MapSucc(w.map, order), t, checks)
        rc == Reconstruct(UniqueLinks(Append(ps, sp.path)), s, t)
    IN  IF ~w.ok
        THEN [pc |-> "panic", paths |-> ps, result |-> Panic("link should be present")]
        ELSE IF sp.kind # "found"
        THEN LET f == SearchFailure(sp, LaterSearchContext)
             IN  [pc |-> f.pc, paths |-> ps, result |-> f.result]
        ELSE IF rc.ok
        THEN [pc |-> "loop", paths |-> rc.paths, result |-> NoResult]
        ELSE [pc |-> "panic", paths |-> ps, result |-> Panic("should exist")]

(***************************************************************************)
(* Input edge lists: the sublists (order kept) of PoolA and of PoolB with  *)
(* at most MaxEdges edges; Scenario A is one of them.                      *)
(***************************************************************************)
E(f, t, w) == [from |-> f, to |-> t, weight |-> w]

\* Four nodes: a direct link, two-link and three-link routes, a link and
\* its reverse, parallel edges 1 -> 2, 1 -> 4 and 3 -> 4 of different weights,
\* one of them large enough for two such weights to leave the i32 range.
PoolA == << E(1, 2, 0), E(1, 3, 1), E(1, 4, 0), E(2, 3, 0), E(2, 4, 1),
            E(3, 4, 0), E(3, 2, 0), E(1, 2, 1), E(1, 2, 2000000000), E(1, 4, 1),
            E(3, 4, 1) >>

\* Scenario A of the specification (spec.md section 8): three two-link routes
\* from 1 to 5.
ScenarioA == << E(1, 2, 1), E(2, 5, 1), E(1, 3, 2), E(3, 5, 2), E(1, 4, 5), E(4, 5, 5) >>

\* Five nodes: Scenario A and two links that join its routes.
PoolB == ScenarioA \o << E(2, 3, 0), E(3, 4, 0) >>

SubList(seq, S) == LET idx == SortSet(S) IN [i \in 1..Len(idx) |-> seq[idx[i]]]

SubLists(seq) ==
    {SubList(seq, S) : S \in {T \in SUBSET (1..Len(seq)) : Cardinality(T) <= MaxEdges}}

InputEdgeLists == SubLists(PoolA) \cup SubLists(PoolB)

Names == 1..5

Init ==
    /\ edges \in InputEdgeLists
    /\ startName = 1
    /\ endName \in Names
    /\ k \in 0..MaxK
    /\ overflow_checks \in BOOLEAN
    /\ pc = "begin"
    /\ nodes = <<>>
    /\ graph = <<>>
    /\ start = 0
    /\ end = 0
    /\ paths = <<>>
    /\ count = 0
    /\ iter = 0
    /\ result = NoResult

(***************************************************************************)
(* Lines 48-99: the conversion to indices, the first search and the bound  *)
(* of the loop.                                                            *)
(***************************************************************************)
Begin ==
    /\ pc = "begin"
    /\ LET ns == NodeNames(edges)
           g  == IndexedGraph(edges, ns)
           s  == NameToIndex(ns, startName)
           t  == NameToIndex(ns, endName)
           sp == Dijkstra(s, FirstSucc(g, Len(ns)), t, overflow_checks)
       IN  /\ nodes' = ns
           /\ graph' = g
           /\ IF s < 0 \/ t < 0
              THEN \* line 74 or 75: unwrap() on None
                   /\ pc' = "panic"
                   /\ result' = Panic("called Option::unwrap() on a None value")
                   /\ UNCHANGED <<start, end, paths, count>>
              ELSE /\ start' = s
                   /\ end' = t
                   /\ IF sp.kind # "found"
                      THEN /\ pc' = SearchFailure(sp, FirstSearchContext).pc
                           /\ result' = SearchFailure(sp, FirstSearchContext).result
                           /\ UNCHANGED <<paths, count>>
                      ELSE /\ paths' = <<sp.path>>
                           \* line 99: k - 1 on usize
                           /\ IF k >= 1
                              THEN /\ count' = k - 1
                                   /\ pc' = "loop"
                                   /\ UNCHANGED result
                              ELSE IF overflow_checks
                              THEN /\ pc' = "panic"
                                   /\ result' = Panic(SubOverflow)
                                   /\ UNCHANGED count
                              ELSE /\ count' = UsizeMaxRep
                                   /\ pc' = "loop"
                                   /\ UNCHANGED result
    /\ UNCHANGED <<edges, startName, endName, k, overflow_checks, iter>>

(***************************************************************************)
(* Lines 99-182: one iteration of the loop.                                *)
(***************************************************************************)
Iteration ==
    /\ pc = "loop"
    /\ ULess(iter, count)
    /\ iter < MaxIter
    /\ \E order \in MapOrders(WorkingGraph(graph, paths).map, Len(nodes)) :
         LET out == IterationOutcome(graph, start, end, paths, order, overflow_checks)
         IN  /\ pc' = out.pc
             /\ paths' = out.paths
             /\ result' = IF out.pc = "loop" THEN result ELSE out.result
             /\ iter' = IF out.pc = "loop" THEN iter + 1 ELSE iter
    /\ UNCHANGED <<edges, startName, endName, k, overflow_checks, nodes, graph,
                   start, end, count>>

(***************************************************************************)
(* Lines 184-194: the node names are restored and the paths returned.      *)
(***************************************************************************)
RestoreNames(ps, ns) == [i \in 1..Len(ps) |-> [j \in 1..Len(ps[i]) |-> ns[ps[i][j] + 1]]]

Return ==
    /\ pc = "loop"
    /\ ~ULess(iter, count)
    /\ pc' = "done"
    /\ result' = Ok(RestoreNames(paths, nodes))
    /\ UNCHANGED <<edges, startName, endName, k, overflow_checks, nodes, graph,
                   start, end, paths, count, iter>>

Next == Begin \/ Iteration \/ Return

Spec == Init /\ [][Next]_vars

(***************************************************************************)
(* The whole call as a function of its input, with every working graph     *)
(* enumerated in ascending key order: what one particular run returns.     *)
(***************************************************************************)
RECURSIVE SortedRunLoop(_, _, _, _, _, _, _, _)
SortedRunLoop(g, ns, s, t, ps, n, i, checks) ==
    IF ~ULess(i, n) THEN [pc |-> "done", result |-> Ok(RestoreNames(ps, ns))]
    ELSE IF i >= MaxIter THEN [pc |-> "loop", result |-> NoResult]
    ELSE LET out == IterationOutcome(g, s, t, ps,
                        SortedOrder(WorkingGraph(g, ps).map, Len(ns)), checks)
         IN  IF out.pc = "loop"
             THEN SortedRunLoop(g, ns, s, t, out.paths, n, i + 1, checks)
             ELSE [pc |-> out.pc, result |-> out.result]

SortedRun(es, sName, tName, kk, checks) ==
    LET ns == NodeNames(es)
        g  == IndexedGraph(es, ns)
        s  == NameToIndex(ns, sName)
        t  == NameToIndex(ns, tName)
        sp == Dijkstra(s, FirstSucc(g, Len(ns)), t, checks)
    IN  IF s < 0 \/ t < 0
        THEN [pc |-> "panic", result |-> Panic("called Option::unwrap() on a None value")]
        ELSE IF sp.kind # "found" THEN SearchFailure(sp, FirstSearchContext)
        ELSE IF kk >= 1 THEN SortedRunLoop(g, ns, s, t, <<sp.path>>, kk - 1, 0, checks)
        ELSE IF checks THEN [pc |-> "panic", result |-> Panic(SubOverflow)]
        ELSE SortedRunLoop(g, ns, s, t, <<sp.path>>, UsizeMaxRep, 0, checks)

(***************************************************************************)
(* What the claims speak of: the links of a path, the input as a weighted  *)
(* graph, and the link-disjoint path sets of that graph by exhaustive      *)
(* search.                                                                 *)
(***************************************************************************)
LinkSet(path) == Range(Links(path))

InputPairs == {<<edges[i].from, edges[i].to>> : i \in 1..Len(edges)}

NonNegativeWeights == \A i \in 1..Len(edges) : edges[i].weight >= 0

NoParallelEdges ==
    \A i, j \in 1..Len(edges) :
        i # j => <<edges[i].from, edges[i].to>> # <<edges[j].from, edges[j].to>>

EndpointsAreNodes ==
    /\ startName \in Range(NodeNames(edges))
    /\ endName \in Range(NodeNames(edges))

\* The weight of a link of the input: the least weight of the edges that
\* join the ordered pair (what a shortest-path search of the input pays).
LinkWeight(link) ==
    LET ws == {edges[i].weight : i \in {j \in 1..Len(edges) :
                                          <<edges[j].from, edges[j].to>> = link}}
    IN  CHOOSE w \in ws : \A x \in ws : w <= x

RECURSIVE SumWeights(_)
SumWeights(S) == IF S = {} THEN 0
                 ELSE LET l == CHOOSE x \in S : TRUE
                      IN  LinkWeight(l) + SumWeights(S \ {l})

RECURSIVE SimplePathsFrom(_, _)
SimplePathsFrom(path, t) ==
    IF path[Len(path)] = t THEN {path}
    ELSE UNION {SimplePathsFrom(Append(path, v), t) :
                  v \in {x[2] : x \in {y \in InputPairs :
                                          y[1] = path[Len(path)] /\ y[2] \notin Range(path)}}}

SimplePaths == SimplePathsFrom(<<startName>>, endName)

PairwiseDisjoint(F) == \A p, q \in F : p # q => LinkSet(p) \cap LinkSet(q) = {}

DisjointFamilies(n) ==
    {F \in SUBSET SimplePaths : Cardinality(F) = n /\ PairwiseDisjoint(F)}

\* m: the largest number of pairwise link-disjoint source-to-target paths.
MaxDisjoint ==
    CHOOSE n \in 0..Cardinality(SimplePaths) :
        /\ DisjointFamilies(n) # {}
        /\ \A j \in (n + 1)..Cardinality(SimplePaths) : DisjointFamilies(j) = {}

FamilyWeight(F) == SumWeights(UNION {LinkSet(p) : p \in F})

IsMinimumTotal(c, n) ==
    /\ \E F \in DisjointFamilies(n) : FamilyWeight(F) = c
    /\ \A F \in DisjointFamilies(n) : FamilyWeight(F) >= c

Returned == pc = "done" /\ result.kind = "Ok"

ReturnedLinks == UNION {LinkSet(result.paths[i]) : i \in 1..Len(result.paths)}

\* The path of the first search, in names.
FirstPath ==
    RestoreNames(<<Dijkstra(start, FirstSucc(graph, Len(nodes)), end,
                            overflow_checks).path>>, nodes)[1]

IsPathOfInput(path, ns) ==
    /\ Len(path) >= 1
    /\ path[1] = startName
    /\ path[Len(path)] = endName
    /\ LinkSet(path) \subseteq InputPairs

(***************************************************************************)
(* C1: whenever bhandari returns successfully (non-negative weights,       *)
(* source # target, k >= 1), no ordered pair (u, v) is a link of two       *)
(* different returned paths.                                               *)
(***************************************************************************)
C1_LinkDisjoint ==
    (Returned /\ NonNegativeWeights /\ startName # endName /\ k >= 1) =>
        \A i, j \in 1..Len(result.paths) :
            i < j => LinkSet(result.paths[i]) \cap LinkSet(result.paths[j]) = {}

\* Two returned paths that meet in a node between the source and the target.
C1_Witness ==
    /\ Returned /\ NonNegativeWeights /\ startName # endName /\ k >= 2
    /\ \E i, j \in 1..Len(result.paths) :
        /\ i < j
        /\ (Range(result.paths[i]) \cap Range(result.paths[j]))
               \ {startName, endName} # {}

(***************************************************************************)
(* C2: on success (non-negative weights, source # target, k >= 1) exactly  *)
(* k paths are returned, each from the source to the target along directed *)
(* edges of the input; after the i-th iteration `paths` holds i + 1 such   *)
(* paths.                                                                  *)
(***************************************************************************)
C2_KPathsOfInputEdges ==
    (NonNegativeWeights /\ startName # endName /\ k >= 1) =>
        /\ Returned =>
              /\ Len(result.paths) = k
              /\ \A i \in 1..k : IsPathOfInput(result.paths[i], nodes)
        /\ pc = "loop" =>
              /\ Len(paths) = iter + 1
              /\ \A i \in 1..Len(paths) :
                    IsPathOfInput(RestoreNames(paths, nodes)[i], nodes)

\* Two paths returned, and the path of the first search is not one of them:
\* the second search went back along a link of the first and was uncrossed.
C2_Witness ==
    /\ Returned /\ NonNegativeWeights /\ startName # endName /\ k = 2
    /\ Len(result.paths) = 2
    /\ FirstPath \notin Range(result.paths)

(***************************************************************************)
(* C3: on success (non-negative weights, source # target, k >= 1) the      *)
(* total weight of the links of the returned paths is the least total      *)
(* weight of any k pairwise link-disjoint source-to-target paths.          *)
(***************************************************************************)
C3_MinimumTotalWeight ==
    (Returned /\ NonNegativeWeights /\ startName # endName /\ k >= 1) =>
        /\ ReturnedLinks \subseteq InputPairs
        /\ IsMinimumTotal(SumWeights(ReturnedLinks), k)

\* The same for edge lists in which no two edges join the same ordered pair.
MinimumTotalWeightWithoutParallelEdges ==
    NoParallelEdges => C3_MinimumTotalWeight

\* Scenario A with k = 3: paths of weight 2, 4 and 10.
ScenarioAWeights ==
    (Returned /\ edges = ScenarioA /\ endName = 5 /\ k = 3) =>
        /\ Len(result.paths) = 3
        /\ {SumWeights(LinkSet(result.paths[i])) : i \in 1..3} = {2, 4, 10}
        /\ SumWeights(ReturnedLinks) = 16

ScenarioAReturned == ~(Returned /\ edges = ScenarioA /\ endName = 5 /\ k = 3)

(***************************************************************************)
(* C4: when k exceeds the largest number m of pairwise link-disjoint       *)
(* source-to-target paths (non-negative weights, source # target), the     *)
(* call ends by returning an error: no successful list, no panic.          *)
(***************************************************************************)
C4_InfeasibleIsAnError ==
    (NonNegativeWeights /\ startName # endName /\ k > MaxDisjoint) =>
        /\ pc \notin {"panic", "hang"}
        /\ pc = "done" => result.kind = "Err"

\* The same when both endpoints are nodes of the edge list and no two edges
\* join the same ordered pair.
InfeasibleIsAnErrorOnSimpleGraphs ==
    (NoParallelEdges /\ EndpointsAreNodes) => C4_InfeasibleIsAnError

(***************************************************************************)
(* C5: the failure of a later iteration's search ("fewer than k disjoint   *)
(* paths exist") is a value other than the failure of the first search    *)
(* ("no path exists") and carries the paths found before it.               *)
(***************************************************************************)
C5_FailuresDistinguished ==
    (k >= 1 /\ pc = "done" /\ result.kind = "Err" /\ paths # <<>>) =>
        /\ result.msg # FirstSearchContext
        /\ result.paths = RestoreNames(paths, nodes)

(***************************************************************************)
(* C6: with source = target (a node of the edge list) and k >= 1, a        *)
(* successful return is exactly k trivial paths <<source>>.                *)
(***************************************************************************)
C6_SourceIsTarget ==
    (Returned /\ startName = endName /\ EndpointsAreNodes /\ k >= 1) =>
        result.paths = [i \in 1..k |-> <<startName>>]

(***************************************************************************)
(* C7: for k = 0 the call returns an error or an empty list: k - 1 neither *)
(* panics nor wraps to the largest usize, and no path is returned.         *)
(***************************************************************************)
C7_ZeroPaths ==
    k = 0 =>
        /\ result # Panic(SubOverflow)
        /\ count # UsizeMaxRep
        /\ Returned => result.paths = <<>>

(***************************************************************************)
(* C8: for k >= 1 the outcome and the returned paths are the same whatever *)
(* the order in which each working graph enumerates its entries: every run *)
(* ends as the run that enumerates them in ascending key order.            *)
(***************************************************************************)
C8_Deterministic ==
    (k >= 1 /\ pc \in {"done", "panic", "hang"}) =>
        [pc |-> pc, result |-> result] =
            SortedRun(edges, startName, endName, k, overflow_checks)

(***************************************************************************)
(* C9: with non-negative weights, both endpoints nodes of the edge list    *)
(* and k >= 1, the call never aborts and never fails to come back: neither *)
(* expect fails, every walk ends, every failure is a returned error.       *)
(***************************************************************************)
C9_NeverAborts ==
    (NonNegativeWeights /\ EndpointsAreNodes /\ k >= 1) =>
        pc \notin {"panic", "hang"}

\* The same for edge lists in which no two edges join the same ordered pair.
NeverAbortsWithoutParallelEdges ==
    NoParallelEdges => C9_NeverAborts

\* Neither lookup that C9 names fails, parallel edges or not.
ExpectsNeverFail ==
    result.kind = "Panic" => result.msg \notin {"link should be present", "should exist"}

\* No search is cut off: every search of the model ends within MaxPops pops.
SearchesEndWithinMaxPops == result # Hang("search cut off")

(***************************************************************************)
(* The uncrossing and reconstruction steps (lines 133-181) on their own:   *)
(* applied, twice, to a list of one or two paths from node 0 to node 4     *)
(* over the nodes 0..4, each link joining two different nodes (and to      *)
(* lists of the trivial path when the source is the target).               *)
(***************************************************************************)
UPathsOfLen(n) ==
    {p \in [1..n -> 0..4] :
        /\ p[1] = 0 /\ p[n] = 4
        /\ \A i \in 1..(n - 1) : p[i] # p[i + 1]}

UPaths == UNION {UPathsOfLen(n) : n \in 2..MaxPathLen}

UPathLists == {<<p>> : p \in UPaths} \cup {<<p, q>> : p \in UPaths, q \in UPaths}

InitUncross ==
    /\ pc = "uncross"
    /\ start = 0
    /\ \/ end = 4 /\ paths \in UPathLists
       \/ end = 0 /\ paths \in {<< <<0>> >>, << <<0>>, <<0>> >>}
    /\ iter = 0
    /\ edges = <<>> /\ startName = 0 /\ endName = 0 /\ k = 0
    /\ overflow_checks = TRUE
    /\ nodes = <<>> /\ graph = <<>> /\ count = 0
    /\ result = NoResult

Uncross ==
    /\ pc = "uncross"
    /\ iter < 2
    /\ IF paths = <<>>
       THEN \* paths[0] at line 134
            /\ pc' = "panic"
            /\ result' = Panic("index out of bounds")
            /\ UNCHANGED <<paths, iter>>
       ELSE LET rc == Reconstruct(UniqueLinks(paths), start, end)
            IN  IF rc.ok
                THEN /\ paths' = rc.paths
                     /\ iter' = iter + 1
                     /\ UNCHANGED <<pc, result>>
                ELSE /\ pc' = "panic"
                     /\ result' = Panic("should exist")
                     /\ UNCHANGED <<paths, iter>>
    /\ UNCHANGED <<edges, startName, endName, k, overflow_checks, nodes, graph,
                   start, end, count>>

SpecUncross == InitUncross /\ [][Uncross]_vars

IsWalk(p, s, t) == Len(p) >= 1 /\ p[1] = s /\ p[Len(p)] = t

\* No ordered pair is a link more than once in the list.
OrderedPairsOnce(ps) ==
    LET al == AllLinks(ps) IN \A i, j \in 1..Len(al) : i # j => al[i] # al[j]

\* No pair is a link more than once in the list, in either direction.
UnorderedPairsOnce(ps) ==
    LET al == AllLinks(ps)
    IN  \A i, j \in 1..Len(al) :
            i # j => al[i] # al[j] /\ al[i] # <<al[j][2], al[j][1]>>

\* The source is the first node of the path only, the target its last only.
EndpointsOnlyAtEnds(p, s, t) ==
    \A i \in 1..Len(p) : (p[i] = s => i = 1) /\ (p[i] = t => i = Len(p))

(***************************************************************************)
(* C10 as stated: on a list of source-to-target paths in which no ordered  *)
(* pair is a link more than once, uncrossing cancels nothing (unique_links *)
(* is the concatenation of the link lists) and reconstruction returns the  *)
(* same paths, the first time and the second.                              *)
(***************************************************************************)
C10_NoOpOnDisjoint ==
    [][(/\ pc = "uncross"
        /\ paths # <<>>
        /\ \A i \in 1..Len(paths) : IsWalk(paths[i], start, end)
        /\ OrderedPairsOnce(paths))
       => (/\ UniqueLinks(paths) = AllLinks(paths)
           /\ pc' = "uncross"
           /\ paths' = paths)]_vars

(***************************************************************************)
(* C10 amended: the same when source # target, every path leaves the       *)
(* source once and stops at its first visit of the target, and no pair of  *)
(* nodes is a link more than once in either direction.                     *)
(***************************************************************************)
C10_NoOpOnUncrossed ==
    [][(/\ pc = "uncross"
        /\ start # end
        /\ paths # <<>>
        /\ \A i \in 1..Len(paths) :
              /\ IsWalk(paths[i], start, end)
              /\ EndpointsOnlyAtEnds(paths[i], start, end)
        /\ UnorderedPairsOnce(paths))
       => (/\ UniqueLinks(paths) = AllLinks(paths)
           /\ pc' = "uncross"
           /\ paths' = paths)]_vars

\* Two paths through a common inner node, uncrossed twice and unchanged.
C10_Witness ==
    /\ pc = "uncross" /\ iter = 2
    /\ start # end
    /\ Len(paths) = 2
    /\ \A i \in 1..2 : /\ IsWalk(paths[i], start, end)
                       /\ EndpointsOnlyAtEnds(paths[i], start, end)
    /\ UnorderedPairsOnce(paths)
    /\ (Range(paths[1]) \cap Range(paths[2])) \ {start, end} # {}

=============================================================================
